---- MODULE Spec2Model ----
(***************************************************************************)
(* Model of the task module of futures-rs (src/task/mod.rs): the poll /     *)
(* unpark protocol of Run::run and Inner::unpark around the UnparkMutex,    *)
(* the thread-local CURRENT_TASK cell with its scoped installation (set /   *)
(* with), Spawn::enter, with_unpark_event, park and Task::unpark with its   *)
(* unpark events.                                                           *)
(*                                                                          *)
(* The file task/unpark_mutex.rs is not part of the sources at hand; the    *)
(* four UnparkMutex operations are modelled from their description in the  *)
(* specification (section 4.1).                                             *)
(***************************************************************************)
EXTENDS Integers, Sequences, FiniteSets, TLC

(* ------------------------------ bounds -------------------------------- *)
NumThreads == 2
MaxSpawns == 2
MaxTasks == 1
MaxDepth == 4
MaxNest == 3
MaxHandles == 2
MaxUnparks == 2
MaxNeed == 3
MaxRepolls == 2
IdBits == 3

Threads == 1..NumThreads
Drivers == {1}
SpawnIdx == 1..MaxSpawns
EventSets == {"A"}
Items == {1, 2}
UnparkEvents == [set : EventSets, item : Items]

VARIABLES
    nextId,    \* NEXT_ID, the process-wide counter of fresh_task_id
    spawns,    \* the Spawn values created so far, in creation order
    inner,     \* per Spawn: the UnparkMutex of the Inner built by execute
    queue,     \* the Runs the executor was handed and has not yet run
    stack,     \* per thread: its call stack (run, enter, with_unpark_event, unpark)
    cur,       \* per thread: the CURRENT_TASK cell (task pointer, data pointer)
    handles,   \* the Task handles user code holds (park results and clones), each
               \* with observers: ctx, where it was parked, and of, the handle it
               \* is a clone of
    evset,     \* per EventSet and item: how many times it was inserted
    token,     \* per thread: the unpark token set by ThreadUnpark
    unparks,   \* number of Task::unpark calls begun
    unwinding, \* per thread: "no", or a panic is unwinding its stack ("panic", and
               \* "unwound" once it left a frame)
    log,       \* history: the invocations of wakeup capabilities by Task::unpark
    pend,      \* history: per Spawn, a notify arrived and no poll began since
    diag,      \* per thread: the message of the panic in flight, "" when none
    execs,     \* history: per Spawn, the number of Executor::execute calls
    issued     \* history: the outcome of every spawn call: the id fetched, and ok
               \* when a Spawn carrying it was returned

vars == <<nextId, spawns, inner, queue, stack, cur, handles, evset, token,
          unparks, unwinding, log, pend, diag, execs, issued>>

(* ---------------------------- UnparkMutex ------------------------------ *)
WAITING == "WAITING"
POLLING == "POLLING"
REPOLL == "REPOLL"
COMPLETE == "COMPLETE"

NoRun == [spawn |-> 0]
NoInner == [status |-> "NONE", slot |-> NoRun]

\* UnparkMutex::new: no poll active, no payload stored yet
UnparkMutexNew == [status |-> WAITING, slot |-> NoRun]

\* start_poll: the holder of the payload enters the Polling state
start_poll(m) == [m EXCEPT !.status = POLLING]

\* wait(payload): Repoll -> Polling handing the payload back (Err), otherwise
\* the payload is stored and the mutex is Waiting (Ok)
wait(m, r) ==
    IF m.status = REPOLL
    THEN [mutex |-> [m EXCEPT !.status = POLLING], ok |-> FALSE, ret |-> r]
    ELSE [mutex |-> [status |-> WAITING, slot |-> r], ok |-> TRUE, ret |-> NoRun]

\* notify: Waiting -> Polling returning the payload (Ok), Polling -> Repoll
\* (Err), Repoll and Complete unchanged (Err)
notify(m) ==
    IF m.status = WAITING
    THEN [mutex |-> [status |-> POLLING, slot |-> NoRun], ok |-> TRUE, ret |-> m.slot]
    ELSE IF m.status = POLLING
    THEN [mutex |-> [m EXCEPT !.status = REPOLL], ok |-> FALSE, ret |-> NoRun]
    ELSE [mutex |-> m, ok |-> FALSE, ret |-> NoRun]

\* complete: any state -> Complete, no payload held
complete(m) == [status |-> COMPLETE, slot |-> NoRun]

(* ------------------------------ values --------------------------------- *)
NotReady == "NotReady"
PollOk == "Ok"
PollErr == "Err"

\* Arc<Unpark>: the Inner of the Run of a Spawn, or a ThreadUnpark of a thread
InnerCap(s) == [kind |-> "inner", of |-> s]
ThreadUnpark(t) == [kind |-> "thread", of |-> t]
NoCap == [kind |-> "none", of |-> 0]

\* struct Task { id, unpark, events }
Task(id, unpark, events) == [id |-> id, unpark |-> unpark, events |-> events]
NoTask == Task(-1, NoCap, <<>>)

\* struct Run { spawn, inner }: the Inner is the one created with the Spawn's Run
Run(s) == [spawn |-> s]

\* the null pair of CURRENT_TASK
NullPair == <<0, 0>>

\* a frame of a thread's call stack. kind "run": Run::run with its spawn and
\* the last poll result res; kind "enter" / "wue": Spawn::enter and
\* with_unpark_event, holding the Task local and set's Reset guard; kind
\* "unpark": Task::unpark on the handle h with the position i of trigger's
\* iterator; kind "wait": wait_future with its spawn and the last poll result
\* res. Observers: prior is the cell at the call, ev the event argument of
\* with_unpark_event, fired the events this unpark inserted so far, parks the
\* number of thread::park calls this wait_future made, within the Spawn and
\* poll inside which it was called.
NoEvent == [set |-> "none", item |-> 0]
Frame(kind, s, task, prior) ==
    [kind |-> kind, spawn |-> s, task |-> task, reset |-> NullPair,
     res |-> "none", h |-> 0, i |-> 0, fired |-> <<>>, prior |-> prior,
     ev |-> NoEvent, parks |-> 0, within |-> <<0, 0>>]

Depth(t) == Len(stack[t])
Top(t) == stack[t][Len(stack[t])]
Idle(t) == stack[t] = <<>>
InBody(t) == ~Idle(t) /\ Top(t).kind \in {"enter", "wue"} /\ unwinding[t] = "no"
InUserCode(t) == (Idle(t) /\ unwinding[t] = "no") \/ InBody(t)
IsSet(f) == f.kind \in {"enter", "wue"}

\* the index of the innermost Spawn::enter frame of a stack, 0 when there is none
InnermostEnter(st) ==
    IF \E k \in 1..Len(st) : st[k].kind = "enter"
    THEN CHOOSE k \in 1..Len(st) :
            st[k].kind = "enter" /\ \A j \in (k + 1)..Len(st) : st[j].kind # "enter"
    ELSE 0

\* observer: where a park() call is made: the Spawn being polled, which of its
\* polls it is, and the events of the with_unpark_event frames open inside that
\* poll, outermost first
ParkCtx(t) ==
    LET st == stack[t]
        k == InnermostEnter(st)
    IN IF k = 0
       THEN [spawn |-> 0, poll |-> 0, thread |-> t, events |-> <<>>]
       ELSE [spawn |-> st[k].spawn, poll |-> spawns[st[k].spawn].polls, thread |-> t,
             events |-> [j \in 1..(Len(st) - k) |-> st[k + j].ev]]
PopFrame(st) == SubSeq(st, 1, Len(st) - 1)
SetTop(st, f) == [st EXCEPT ![Len(st)] = f]

(* ----------------------------- task ids -------------------------------- *)
UsizeMax == 2^IdBits - 1

\* fresh_task_id: fetch_add(1) on the wrapping counter, then the assertion
fresh_task_id(n) ==
    [id |-> n, next |-> (n + 1) % (UsizeMax + 1), ok |-> n < UsizeMax \div 2]

\* spawn(obj): obj is a future that is NotReady until its need-th poll and
\* then returns out; a call whose assertion fails returns no Spawn. Observers
\* of a Spawn: polls, the polls of its future begun; st, who holds it; ret and
\* parks, the result wait_future returned for it and the thread::park calls
\* that took; within, the Spawn and poll inside which that wait_future ran
spawn(need, out) ==
    /\ Len(spawns) < MaxSpawns
    /\ LET f == fresh_task_id(nextId) IN
        /\ nextId' = f.next
        /\ spawns' = IF f.ok
                     THEN Append(spawns, [id |-> f.id, need |-> need, out |-> out,
                                          polls |-> 0, st |-> "free", ret |-> "none",
                                          parks |-> 0, within |-> <<0, 0>>])
                     ELSE spawns
        /\ issued' = Append(issued, [id |-> f.id, ok |-> f.ok])
    /\ UNCHANGED <<inner, queue, stack, cur, handles, evset, token, unparks, unwinding, log, pend, diag, execs>>

\* the Spawn created last is dropped by its owner: one that is not being
\* polled, was not handed to an executor and has no handle parked in its polls
SpawnDrop ==
    /\ spawns # <<>>
    /\ LET s == Len(spawns) IN
        /\ spawns[s].st = "free"
        /\ inner[s] = NoInner
        /\ \A h \in 1..Len(handles) : handles[h].ctx.spawn # s
    /\ spawns' = SubSeq(spawns, 1, Len(spawns) - 1)
    /\ UNCHANGED <<nextId, inner, queue, stack, cur, handles, evset, token, unparks, unwinding, log, pend, diag, execs, issued>>

(* ------------------------- ambient context ----------------------------- *)
\* mutant of set: CURRENT_TASK is one cell shared by all threads
setSharedCell(t, st, fr, data) ==
    /\ stack' = [stack EXCEPT ![t] = Append(st, [fr EXCEPT !.reset = cur[t]])]
    /\ cur' = [u \in Threads |-> <<Len(st) + 1, data>>]

\* set(task, data, f) called with the stack st of thread t: save the cell in
\* Reset, install the pair, start f (the frame fr holds the Task the pointer
\* designates, and the Reset guard)
set(t, st, fr, data) ==
    /\ stack' = [stack EXCEPT ![t] = Append(st, [fr EXCEPT !.reset = cur[t]])]
    /\ cur' = [cur EXCEPT ![t] = <<Len(st) + 1, data>>]

\* mutant of ResetDrop: the cell is cleared instead of restored
ResetDropClears(t) == [cur EXCEPT ![t] = NullPair]

\* Drop for Reset: put the saved pair back
ResetDrop(t) == [cur EXCEPT ![t] = Top(t).reset]

\* mutant of with: the assertion is missing and f runs on whatever the cell holds
withNoAssert(t) ==
    [ok |-> TRUE,
     task |-> IF cur[t][1] # 0 THEN stack[t][cur[t][1]].task ELSE NoTask,
     data |-> cur[t][2]]

\* with(f): the assertion and the dereference of the two pointers
with(t) ==
    [ok |-> cur[t][1] # 0,
     task |-> IF cur[t][1] # 0 THEN stack[t][cur[t][1]].task ELSE NoTask,
     data |-> cur[t][2]]

\* mutant of with_event: the new event is put in front of the list
with_eventInFront(events, event) == <<event>> \o events

\* Events::new and Events::with_event
EventsNew == <<>>
with_event(events, event) == Append(events, event)

\* mutant of enter: the new Task starts from the events of the ambient Task
enterKeepsEvents(t, st, s, unpark) ==
    /\ set(t, st, Frame("enter", s, Task(spawns[s].id, unpark, with(t).task.events),
                         cur[t]), s)
    /\ spawns' = [spawns EXCEPT ![s].polls = @ + 1,
                                ![s].st = IF @ = "free" THEN "busy" ELSE @]

\* Spawn::enter(unpark, f) as called by poll_future, on the stack st of thread
\* t: build the Task with no events and install it; the future's poll begins
enter(t, st, s, unpark) ==
    /\ set(t, st, Frame("enter", s, Task(spawns[s].id, unpark, EventsNew), cur[t]), s)
    /\ spawns' = [spawns EXCEPT ![s].polls = @ + 1,
                                ![s].st = IF @ = "free" THEN "busy" ELSE @]

\* the value Future::poll returns for a future polled n times so far
PollResult(sp) == IF sp.polls >= sp.need THEN sp.out ELSE NotReady

(* ------------------------ user code in a poll -------------------------- *)
\* poll_future(unpark) called by user code (idle or inside a poll) on a Spawn
\* it owns, with the ThreadUnpark of the current thread as wait_future builds it
poll_future(t, s) ==
    /\ InUserCode(t)
    /\ Depth(t) < MaxDepth
    /\ s \in 1..Len(spawns)
    /\ spawns[s].st = "free"
    /\ spawns[s].polls < spawns[s].need
    /\ enter(t, stack[t], s, ThreadUnpark(t))
    /\ UNCHANGED <<nextId, inner, queue, handles, evset, token, unparks, unwinding, log, pend, diag, execs, issued>>

\* the messages of the two assertions of the module
NoTaskMsg == "no Task is currently running"
TooManyMsg == "too many previous tasks have been allocated"

\* park() called by user code: with(|task, _| task.clone()); the assertion of
\* with panics when the cell holds no Task
park(t) ==
    /\ InUserCode(t)
    /\ IF with(t).ok
       THEN /\ Len(handles) < MaxHandles
            /\ handles' = Append(handles, [task |-> with(t).task, ctx |-> ParkCtx(t),
                                           of |-> 0])
            /\ UNCHANGED <<unwinding, diag>>
       ELSE /\ unwinding' = [unwinding EXCEPT ![t] = "panic"]
            /\ diag' = [diag EXCEPT ![t] = NoTaskMsg]
            /\ UNCHANGED handles
    /\ UNCHANGED <<nextId, spawns, inner, queue, stack, cur, evset, token, unparks, log, pend, execs, issued>>

\* Task::clone (derive(Clone)) of a handle user code holds
TaskClone(h) ==
    /\ h \in 1..Len(handles)
    /\ Len(handles) < MaxHandles
    /\ handles' = Append(handles, [handles[h] EXCEPT !.of = h])
    /\ UNCHANGED <<nextId, spawns, inner, queue, stack, cur, evset, token, unparks, unwinding, log, pend, diag, execs, issued>>

\* with_unpark_event(event, f) called by user code: the new Task and its
\* installation, then f begins; the assertion of with panics when the cell
\* holds no Task, before f is called
with_unpark_event(t, event) ==
    /\ InUserCode(t)
    /\ Depth(t) < MaxDepth
    /\ IF with(t).ok
       THEN /\ LET task == with(t).task
                   new_task == Task(task.id, task.unpark, with_event(task.events, event))
               IN set(t, stack[t], [Frame("wue", 0, new_task, cur[t]) EXCEPT !.ev = event],
                      with(t).data)
            /\ UNCHANGED <<unwinding, diag>>
       ELSE /\ unwinding' = [unwinding EXCEPT ![t] = "panic"]
            /\ diag' = [diag EXCEPT ![t] = NoTaskMsg]
            /\ UNCHANGED <<stack, cur>>
    /\ UNCHANGED <<nextId, spawns, inner, queue, handles, evset, token, unparks, log, pend, execs, issued>>

\* f returns inside with_unpark_event: set returns and Reset is dropped
WueReturn(t) ==
    /\ ~Idle(t)
    /\ unwinding[t] = "no"
    /\ Top(t).kind = "wue"
    /\ cur' = ResetDrop(t)
    /\ stack' = [stack EXCEPT ![t] = PopFrame(@)]
    /\ UNCHANGED <<nextId, spawns, inner, queue, handles, evset, token, unparks, unwinding, log, pend, diag, execs, issued>>

\* the future's poll returns: enter's set returns and Reset is dropped; the
\* result goes to Run::run or wait_future when it made the call
PollReturn(t) ==
    /\ ~Idle(t)
    /\ unwinding[t] = "no"
    /\ Top(t).kind = "enter"
    /\ LET s == Top(t).spawn
           r == PollResult(spawns[s])
           below == PopFrame(stack[t])
       IN
        /\ cur' = ResetDrop(t)
        /\ IF below # <<>> /\ below[Len(below)].kind \in {"run", "wait"}
           THEN /\ stack' = [stack EXCEPT ![t] =
                                SetTop(below, [below[Len(below)] EXCEPT !.res = r])]
                /\ UNCHANGED spawns
           ELSE /\ stack' = [stack EXCEPT ![t] = below]
                /\ spawns' = [spawns EXCEPT ![s].st = "free"]
    /\ UNCHANGED <<nextId, inner, queue, handles, evset, token, unparks, unwinding, log, pend, diag, execs, issued>>

(* -------------------------- blocking driver ---------------------------- *)
\* wait_future called by user code (idle or inside a poll) on a Spawn it owns:
\* the ThreadUnpark of the current thread, then the first poll_future of the loop
wait_future(t, s) ==
    /\ InUserCode(t)
    /\ Depth(t) + 1 < MaxDepth
    /\ s \in 1..Len(spawns)
    /\ spawns[s].st = "free"
    /\ spawns[s].polls < spawns[s].need
    /\ LET c == ParkCtx(t)
           fr == [Frame("wait", s, NoTask, cur[t]) EXCEPT
                        !.res = "polling", !.within = <<c.spawn, c.poll>>]
       IN enter(t, Append(stack[t], fr), s, ThreadUnpark(t))
    /\ UNCHANGED <<nextId, inner, queue, handles, evset, token, unparks, unwinding, log, pend, diag, execs, issued>>

\* mutant of WaitPark: the pending unpark is left in place, and the thread
\* blocks although it was unparked
WaitParkIgnoresToken(t) ==
    /\ ~Idle(t)
    /\ Top(t).kind = "wait"
    /\ Top(t).res = NotReady
    /\ stack' = [stack EXCEPT ![t] =
                    SetTop(@, [Top(t) EXCEPT !.res = "parked", !.parks = @ + 1])]
    /\ token' = [token EXCEPT ![t] = FALSE]
    /\ UNCHANGED <<spawns, cur>>
    /\ UNCHANGED <<nextId, inner, queue, handles, evset, unparks, unwinding, log, pend, diag, execs, issued>>

\* wait_future: the poll returned NotReady: thread::park(). With an unpark
\* pending it consumes it and returns at once, and the loop polls again;
\* otherwise the thread blocks
WaitPark(t) ==
    /\ ~Idle(t)
    /\ Top(t).kind = "wait"
    /\ Top(t).res = NotReady
    /\ IF token[t]
       THEN /\ token' = [token EXCEPT ![t] = FALSE]
            /\ enter(t, SetTop(stack[t], [Top(t) EXCEPT !.res = "polling",
                                                      !.parks = @ + 1]),
                     Top(t).spawn, ThreadUnpark(t))
       ELSE /\ stack' = [stack EXCEPT ![t] =
                            SetTop(@, [Top(t) EXCEPT !.res = "parked", !.parks = @ + 1])]
            /\ UNCHANGED <<token, spawns, cur>>
    /\ UNCHANGED <<nextId, inner, queue, handles, evset, unparks, unwinding, log, pend, diag, execs, issued>>

\* a thread blocked in thread::park is unparked: park consumes the unpark and
\* returns, and the loop of wait_future polls again
ParkWake(t) ==
    /\ ~Idle(t)
    /\ Top(t).kind = "wait"
    /\ Top(t).res = "parked"
    /\ token[t]
    /\ token' = [token EXCEPT ![t] = FALSE]
    /\ enter(t, SetTop(stack[t], [Top(t) EXCEPT !.res = "polling"]),
             Top(t).spawn, ThreadUnpark(t))
    /\ UNCHANGED <<nextId, inner, queue, handles, evset, unparks, unwinding, log, pend, diag, execs, issued>>

\* thread::park returns spuriously, without an unpark, and the loop polls again
ParkSpurious(t) ==
    /\ ~Idle(t)
    /\ Top(t).kind = "wait"
    /\ Top(t).res = "parked"
    /\ ~token[t]
    /\ enter(t, SetTop(stack[t], [Top(t) EXCEPT !.res = "polling"]),
             Top(t).spawn, ThreadUnpark(t))
    /\ UNCHANGED <<nextId, inner, queue, handles, evset, token, unparks, unwinding, log, pend, diag, execs, issued>>

\* mutant of WaitReturn: the error arm returns Ok as well
WaitReturnOkOnly(t) ==
    /\ ~Idle(t)
    /\ Top(t).kind = "wait"
    /\ Top(t).res \in {PollOk, PollErr}
    /\ spawns' = [spawns EXCEPT ![Top(t).spawn].ret = PollOk,
                                ![Top(t).spawn].parks = Top(t).parks,
                                ![Top(t).spawn].within = Top(t).within,
                                ![Top(t).spawn].st = "free"]
    /\ stack' = [stack EXCEPT ![t] = PopFrame(@)]
    /\ UNCHANGED <<nextId, inner, queue, cur, handles, evset, token, unparks, unwinding, log, pend, diag, execs, issued>>

\* wait_future: the poll returned Ok(e) or Err(e): return Ok(e) or Err(e)
WaitReturn(t) ==
    /\ ~Idle(t)
    /\ Top(t).kind = "wait"
    /\ Top(t).res \in {PollOk, PollErr}
    /\ spawns' = [spawns EXCEPT ![Top(t).spawn].ret =
                                    IF Top(t).res = PollOk THEN PollOk ELSE PollErr,
                                ![Top(t).spawn].parks = Top(t).parks,
                                ![Top(t).spawn].within = Top(t).within,
                                ![Top(t).spawn].st = "free"]
    /\ stack' = [stack EXCEPT ![t] = PopFrame(@)]
    /\ UNCHANGED <<nextId, inner, queue, cur, handles, evset, token, unparks, unwinding, log, pend, diag, execs, issued>>

(* ----------------------------- executor -------------------------------- *)
\* mutant of execute: the Run is built and handed to the executor twice
executeTwice(s) ==
    /\ s \in 1..Len(spawns)
    /\ spawns[s].st = "free"
    /\ spawns[s].polls = 0
    /\ inner[s] = NoInner
    /\ spawns' = [spawns EXCEPT ![s].st = "moved"]
    /\ inner' = [inner EXCEPT ![s] = UnparkMutexNew]
    /\ queue' = Append(Append(queue, Run(s)), Run(s))
    /\ execs' = [execs EXCEPT ![s] = @ + 2]
    /\ UNCHANGED <<nextId, stack, cur, handles, evset, token, unparks, unwinding, log, pend, diag, issued>>

\* Spawn::execute(exec): a fresh Inner and the first Run, handed to the executor
execute(s) ==
    /\ s \in 1..Len(spawns)
    /\ spawns[s].st = "free"
    /\ spawns[s].polls = 0
    /\ inner[s] = NoInner
    /\ spawns' = [spawns EXCEPT ![s].st = "moved"]
    /\ inner' = [inner EXCEPT ![s] = UnparkMutexNew]
    /\ queue' = Append(queue, Run(s))
    /\ execs' = [execs EXCEPT ![s] = @ + 1]
    /\ UNCHANGED <<nextId, stack, cur, handles, evset, token, unparks, unwinding, log, pend, diag, issued>>

\* the executor calls run() on a Run it holds, on an idle thread
RunBegin(t) ==
    /\ Idle(t)
    /\ \E k \in 1..Len(queue) :
        /\ queue' = SubSeq(queue, 1, k - 1) \o SubSeq(queue, k + 1, Len(queue))
        /\ stack' = [stack EXCEPT ![t] =
                        <<[Frame("run", queue[k].spawn, NoTask, NullPair)
                              EXCEPT !.res = "entry"]>>]
    /\ UNCHANGED <<nextId, spawns, inner, cur, handles, evset, token, unparks, unwinding, log, pend, diag, execs, issued>>

\* Run::run: start_poll, then the first poll_future of the loop
RunStartPoll(t) ==
    /\ ~Idle(t)
    /\ Top(t).kind = "run"
    /\ Top(t).res = "entry"
    /\ LET s == Top(t).spawn IN
        /\ inner' = [inner EXCEPT ![s] = start_poll(@)]
        /\ enter(t, SetTop(stack[t], [Top(t) EXCEPT !.res = "polling"]), s, InnerCap(s))
        /\ pend' = [pend EXCEPT ![s] = FALSE]
    /\ UNCHANGED <<nextId, queue, handles, evset, token, unparks, unwinding, log, diag, execs, issued>>

\* mutant of RunComplete: only Poll::Ok completes the mutex, Poll::Err just
\* returns from run
RunCompleteOnlyOk(t) ==
    /\ ~Idle(t)
    /\ Top(t).kind = "run"
    /\ Top(t).res \in {PollOk, PollErr}
    /\ inner' = IF Top(t).res = PollOk
                THEN [inner EXCEPT ![Top(t).spawn] = complete(@)]
                ELSE inner
    /\ stack' = [stack EXCEPT ![t] = PopFrame(@)]
    /\ UNCHANGED <<nextId, spawns, queue, cur, handles, evset, token, unparks,
                   unwinding, log, pend, diag, execs, issued>>

\* Run::run: the poll returned Ok or Err: complete()
RunComplete(t) ==
    /\ ~Idle(t)
    /\ Top(t).kind = "run"
    /\ Top(t).res \in {PollOk, PollErr}
    /\ inner' = [inner EXCEPT ![Top(t).spawn] = complete(@)]
    /\ stack' = [stack EXCEPT ![t] = PopFrame(@)]
    /\ UNCHANGED <<nextId, spawns, queue, cur, handles, evset, token, unparks, unwinding, log, pend, diag, execs, issued>>

\* mutant of RunWait: the result of wait is ignored and the loop always polls
\* again, also when the Run was stored in the mutex
RunWaitAlwaysLoops(t) ==
    /\ ~Idle(t)
    /\ Top(t).kind = "run"
    /\ Top(t).res = NotReady
    /\ LET s == Top(t).spawn
           w == wait(inner[s], Run(s))
       IN
        /\ inner' = [inner EXCEPT ![s] = w.mutex]
        /\ enter(t, SetTop(stack[t], [Top(t) EXCEPT !.res = "polling"]), s, InnerCap(s))
        /\ pend' = [pend EXCEPT ![s] = FALSE]
    /\ UNCHANGED <<nextId, queue, handles, evset, token, unparks, unwinding, log, diag, execs, issued>>

\* mutant of RunWait: when wait hands the Run back (a notify arrived during
\* the poll) run returns as if the Run had been stored
RunWaitDropsRepoll(t) ==
    /\ ~Idle(t)
    /\ Top(t).kind = "run"
    /\ Top(t).res = NotReady
    /\ LET s == Top(t).spawn
           w == wait(inner[s], Run(s))
       IN inner' = [inner EXCEPT ![s] = w.mutex]
    /\ stack' = [stack EXCEPT ![t] = PopFrame(@)]
    /\ UNCHANGED <<nextId, spawns, cur, queue, handles, evset, token, unparks,
                   unwinding, log, pend, diag, execs, issued>>

\* mutant of RunWait: a Run stored in the mutex is handed to the executor as
\* well
RunWaitRequeues(t) ==
    /\ ~Idle(t)
    /\ Top(t).kind = "run"
    /\ Top(t).res = NotReady
    /\ LET s == Top(t).spawn
           w == wait(inner[s], Run(s))
       IN
        /\ inner' = [inner EXCEPT ![s] = w.mutex]
        /\ IF w.ok
           THEN /\ stack' = [stack EXCEPT ![t] = PopFrame(@)]
                /\ queue' = Append(queue, Run(s))
                /\ execs' = [execs EXCEPT ![s] = @ + 1]
                /\ UNCHANGED <<spawns, cur, pend>>
           ELSE /\ enter(t, SetTop(stack[t], [Top(t) EXCEPT !.res = "polling",
                                                          !.spawn = w.ret.spawn]),
                         w.ret.spawn, InnerCap(s))
                /\ pend' = [pend EXCEPT ![s] = FALSE]
                /\ UNCHANGED <<queue, execs>>
    /\ UNCHANGED <<nextId, handles, evset, token, unparks, unwinding, log, diag, issued>>

\* Run::run: the poll returned NotReady: wait(run); Ok returns, Err polls again
RunWait(t) ==
    /\ ~Idle(t)
    /\ Top(t).kind = "run"
    /\ Top(t).res = NotReady
    /\ LET s == Top(t).spawn
           w == wait(inner[s], Run(s))
       IN
        /\ inner' = [inner EXCEPT ![s] = w.mutex]
        /\ IF w.ok
           THEN /\ stack' = [stack EXCEPT ![t] = PopFrame(@)]
                /\ UNCHANGED <<spawns, cur, pend>>
           ELSE /\ enter(t, SetTop(stack[t], [Top(t) EXCEPT !.res = "polling",
                                                          !.spawn = w.ret.spawn]),
                         w.ret.spawn, InnerCap(s))
                /\ pend' = [pend EXCEPT ![s] = FALSE]
    /\ UNCHANGED <<nextId, queue, handles, evset, token, unparks, unwinding, log, diag, execs, issued>>

(* ---------------------------- Task::unpark ----------------------------- *)
\* user code (idle or inside a poll) calls unpark on a handle it holds
TaskUnpark(t, h) ==
    /\ InUserCode(t)
    /\ Depth(t) < MaxDepth
    /\ unparks < MaxUnparks
    /\ h \in 1..Len(handles)
    /\ stack' = [stack EXCEPT ![t] =
                    Append(@, [Frame("unpark", 0, handles[h].task, cur[t]) EXCEPT !.h = h])]
    /\ unparks' = unparks + 1
    /\ UNCHANGED <<nextId, spawns, inner, queue, cur, handles, evset, token, unwinding, log, pend, diag, execs, issued>>

\* mutant of EventsTrigger: the loop walks the events from the last to the first
EventsTriggerReversed(t) ==
    /\ ~Idle(t)
    /\ Top(t).kind = "unpark"
    /\ Top(t).i < Len(Top(t).task.events)
    /\ LET event == Top(t).task.events[Len(Top(t).task.events) - Top(t).i] IN
        /\ evset' = [evset EXCEPT ![event.set][event.item] = @ + 1]
        /\ stack' = [stack EXCEPT ![t] =
                        SetTop(@, [Top(t) EXCEPT !.i = @ + 1,
                                                 !.fired = Append(@, event)])]
    /\ UNCHANGED <<nextId, spawns, inner, queue, cur, handles, token, unparks,
                   unwinding, log, pend, diag, execs, issued>>

\* Events::trigger: one iteration of the loop over the events of the handle
EventsTrigger(t) ==
    /\ ~Idle(t)
    /\ Top(t).kind = "unpark"
    /\ Top(t).i < Len(Top(t).task.events)
    /\ LET event == Top(t).task.events[Top(t).i + 1] IN
        /\ evset' = [evset EXCEPT ![event.set][event.item] = @ + 1]
        /\ stack' = [stack EXCEPT ![t] =
                        SetTop(@, [Top(t) EXCEPT !.i = @ + 1,
                                                 !.fired = Append(@, event)])]
    /\ UNCHANGED <<nextId, spawns, inner, queue, cur, handles, token, unparks, unwinding, log, pend, diag, execs, issued>>

\* observer: the record of one invocation of a wakeup capability by the
\* Task::unpark call of frame f: saw is the mutex state notify found, ran
\* whether Executor::execute was called
LogEntry(f, saw, ran) ==
    [h |-> f.h, task |-> f.task, fired |-> f.fired, saw |-> saw, ran |-> ran]

\* mutant of InnerUnpark: the Run that notify hands out is dropped instead of
\* being passed to Executor::execute
InnerUnparkDropsRun(s, f) ==
    LET n == notify(inner[s]) IN
    /\ inner' = [inner EXCEPT ![s] = n.mutex]
    /\ queue' = queue
    /\ pend' = [pend EXCEPT ![s] = @ \/ inner[s].status # COMPLETE]
    /\ log' = Append(log, LogEntry(f, inner[s].status, FALSE))
    /\ UNCHANGED <<token, execs>>

\* mutant of InnerUnpark: Executor::execute is called whatever notify returns,
\* with a Run built anew when notify handed none out
InnerUnparkAlwaysExecutes(s, f) ==
    LET n == notify(inner[s]) IN
    /\ inner' = [inner EXCEPT ![s] = n.mutex]
    /\ queue' = Append(queue, Run(s))
    /\ execs' = [execs EXCEPT ![s] = @ + 1]
    /\ pend' = [pend EXCEPT ![s] = @ \/ inner[s].status # COMPLETE]
    /\ log' = Append(log, LogEntry(f, inner[s].status, TRUE))
    /\ UNCHANGED token

\* impl Unpark for Inner: notify, and execute the Run it hands out
InnerUnpark(s, f) ==
    LET n == notify(inner[s]) IN
    /\ inner' = [inner EXCEPT ![s] = n.mutex]
    /\ queue' = IF n.ok THEN Append(queue, n.ret) ELSE queue
    /\ execs' = IF n.ok THEN [execs EXCEPT ![s] = @ + 1] ELSE execs
    /\ pend' = [pend EXCEPT ![s] = @ \/ inner[s].status # COMPLETE]
    /\ log' = Append(log, LogEntry(f, inner[s].status, n.ok))
    /\ UNCHANGED token

\* impl Unpark for ThreadUnpark: Thread::unpark leaves the token
ThreadUnparkUnpark(u, f) ==
    /\ token' = [token EXCEPT ![u] = TRUE]
    /\ log' = Append(log, LogEntry(f, "thread", FALSE))
    /\ UNCHANGED <<inner, queue, pend, execs>>

\* mutant of UnparkCap: Task::unpark invokes the capability at once and
\* returns, the events are not triggered
UnparkCapSkipsTrigger(t) ==
    /\ ~Idle(t)
    /\ Top(t).kind = "unpark"
    /\ Top(t).i = 0
    /\ LET cap == Top(t).task.unpark IN
        IF cap.kind = "inner"
        THEN InnerUnpark(cap.of, Top(t))
        ELSE ThreadUnparkUnpark(cap.of, Top(t))
    /\ stack' = [stack EXCEPT ![t] = PopFrame(@)]
    /\ UNCHANGED <<nextId, spawns, cur, handles, evset, unparks, unwinding, diag, issued>>

\* Task::unpark after trigger returned: self.unpark.unpark(), then return
UnparkCap(t) ==
    /\ ~Idle(t)
    /\ Top(t).kind = "unpark"
    /\ Top(t).i = Len(Top(t).task.events)
    /\ LET cap == Top(t).task.unpark IN
        IF cap.kind = "inner"
        THEN InnerUnpark(cap.of, Top(t))
        ELSE ThreadUnparkUnpark(cap.of, Top(t))
    /\ stack' = [stack EXCEPT ![t] = PopFrame(@)]
    /\ UNCHANGED <<nextId, spawns, cur, handles, evset, unparks, unwinding, diag, issued>>

(* ------------------------------ panics --------------------------------- *)
\* the body of a poll or of with_unpark_event panics: unwinding begins
Panic(t) ==
    /\ InBody(t)
    /\ unwinding' = [unwinding EXCEPT ![t] = "panic"]
    /\ diag' = [diag EXCEPT ![t] = "explicit panic"]
    /\ UNCHANGED <<nextId, spawns, inner, queue, stack, cur, handles, evset, token,
                   unparks, log, pend, execs, issued>>

\* unwinding leaves the innermost set: Reset is dropped (the &mut borrow of a
\* Spawn polled by user code ends)
Unwind(t) ==
    /\ unwinding[t] # "no"
    /\ ~Idle(t)
    /\ IsSet(Top(t))
    /\ cur' = ResetDrop(t)
    /\ stack' = [stack EXCEPT ![t] = PopFrame(@)]
    /\ spawns' = IF Top(t).kind = "enter" /\ spawns[Top(t).spawn].st = "busy"
                 THEN [spawns EXCEPT ![Top(t).spawn].st = "free"]
                 ELSE spawns
    /\ unwinding' = [unwinding EXCEPT ![t] = "unwound"]
    /\ UNCHANGED <<nextId, inner, queue, handles, evset, token, unparks, log, pend, diag, execs, issued>>

\* the panic is caught: catch_unwind in user code at any level, or the end of
\* the thread's work
Catch(t) ==
    /\ unwinding[t] # "no"
    /\ unwinding' = [unwinding EXCEPT ![t] = "no"]
    /\ diag' = [diag EXCEPT ![t] = ""]
    /\ UNCHANGED <<nextId, spawns, inner, queue, stack, cur, handles, evset, token,
                   unparks, log, pend, execs, issued>>

(* --------------------------- specification ----------------------------- *)
Init ==
    /\ nextId = 0
    /\ spawns = <<>>
    /\ inner = [s \in SpawnIdx |-> NoInner]
    /\ queue = <<>>
    /\ stack = [t \in Threads |-> <<>>]
    /\ cur = [t \in Threads |-> NullPair]
    /\ handles = <<>>
    /\ evset = [e \in EventSets |-> [x \in Items |-> 0]]
    /\ token = [t \in Threads |-> FALSE]
    /\ unparks = 0
    /\ log = <<>>
    /\ unwinding = [t \in Threads |-> "no"]
    /\ pend = [s \in SpawnIdx |-> FALSE]
    /\ diag = [t \in Threads |-> ""]
    /\ execs = [s \in SpawnIdx |-> 0]
    /\ issued = <<>>

\* the executor world: one task driven by Run::run on the executor's threads
Next ==
    \/ \E need \in 1..MaxNeed, out \in {PollOk, PollErr} :
            Len(spawns) < MaxTasks /\ spawn(need, out)
    \/ \E s \in SpawnIdx : execute(s)
    \/ \E t \in Threads :
        \/ RunBegin(t)
        \/ RunStartPoll(t)
        \/ RunComplete(t)
        \/ RunWait(t)
        \/ PollReturn(t)
        \/ InBody(t) /\ park(t)
        \/ WueReturn(t)
        \/ EventsTrigger(t)
        \/ UnparkCap(t)
        \/ \E e \in UnparkEvents : InBody(t) /\ with_unpark_event(t, e)
        \/ \E h \in 1..MaxHandles : TaskUnpark(t, h)

Spec == Init /\ [][Next]_vars

\* the executor world without unpark events, with the scheduling the claims
\* about wakeups assume: the executor eventually runs every Run it holds, and
\* a thread inside Run::run, a poll or Task::unpark eventually takes its step
NextLive ==
    \/ \E need \in 1..MaxNeed, out \in {PollOk, PollErr} :
            Len(spawns) < MaxTasks /\ spawn(need, out)
    \/ \E s \in SpawnIdx : execute(s)
    \/ \E t \in Threads :
        \/ RunBegin(t)
        \/ RunStartPoll(t)
        \/ RunComplete(t)
        \/ RunWait(t)
        \/ PollReturn(t)
        \/ InBody(t) /\ park(t)
        \/ UnparkCap(t)
        \/ \E h \in 1..MaxHandles : TaskUnpark(t, h)

Fairness ==
    /\ SF_vars(\E t \in Threads : RunBegin(t))
    /\ \A t \in Threads :
        /\ WF_vars(RunStartPoll(t))
        /\ WF_vars(RunComplete(t))
        /\ WF_vars(RunWait(t))
        /\ WF_vars(PollReturn(t))
        /\ WF_vars(UnparkCap(t))

SpecLive == Init /\ [][NextLive]_vars /\ Fairness

\* the ambient context: Spawns polled by user code on its own threads, nested
\* polls and with_unpark_event frames, panicking bodies; one handle in use
NextAmbient ==
    \/ spawn(MaxRepolls, PollOk)
    \/ \E t \in Threads :
        \/ PollReturn(t)
        \/ Len(handles) < MaxHandles - 1 /\ park(t)
        \/ WueReturn(t)
        \/ EventsTrigger(t)
        \/ UnparkCap(t)
        \/ Panic(t)
        \/ Unwind(t)
        \/ Catch(t)
        \/ \E s \in SpawnIdx : Depth(t) < MaxNest /\ poll_future(t, s)
        \/ \E e \in UnparkEvents : Depth(t) < MaxNest /\ with_unpark_event(t, e)
        \/ \E h \in 1..MaxHandles : Depth(t) < MaxNest /\ TaskUnpark(t, h)

SpecAmbient == Init /\ [][NextAmbient]_vars

\* unpark events: the threads of Drivers poll Spawns, every thread may unpark
\* the handles parked there and their clones
NextEvents ==
    \/ spawn(MaxRepolls, PollOk)
    \/ \E h \in 1..MaxHandles : TaskClone(h)
    \/ \E t \in Threads :
        \/ PollReturn(t)
        \/ InBody(t) /\ park(t)
        \/ WueReturn(t)
        \/ EventsTrigger(t)
        \/ UnparkCap(t)
        \/ \E s \in SpawnIdx : t \in Drivers /\ Depth(t) < MaxNest /\ poll_future(t, s)
        \/ \E e \in UnparkEvents :
                InBody(t) /\ Depth(t) < MaxNest /\ with_unpark_event(t, e)
        \/ \E h \in 1..MaxHandles : Depth(t) < MaxNest /\ TaskUnpark(t, h)

SpecEvents == Init /\ [][NextEvents]_vars

\* the blocking driver: the threads of Drivers run wait_future on Spawns, also
\* from inside a poll; every thread may unpark the handles parked in the polls
NextWait ==
    \/ \E need \in 1..MaxNeed, out \in {PollOk, PollErr} : spawn(need, out)
    \/ \E t \in Threads :
        \/ \E s \in SpawnIdx : t \in Drivers /\ wait_future(t, s)
        \/ PollReturn(t)
        \/ WaitPark(t)
        \/ ParkWake(t)
        \/ ParkSpurious(t)
        \/ WaitReturn(t)
        \/ InBody(t) /\ park(t)
        \/ UnparkCap(t)
        \/ \E h \in 1..MaxHandles : TaskUnpark(t, h)

SpecWait == Init /\ [][NextWait]_vars

\* task ids: spawn calls without end, by any thread (a call is one atomic
\* fetch_add followed by thread-local work), the Spawns dropped again; enough
\* calls for the counter to go once around its range
MaxCalls == 2^IdBits + 2

NextIds ==
    \/ \E need \in 1..MaxNeed, out \in {PollOk, PollErr} :
            Len(issued) < MaxCalls /\ spawn(need, out)
    \/ SpawnDrop

SpecIds == Init /\ [][NextIds]_vars

(* ------------------------------- claims -------------------------------- *)
\* the polls of Spawn s in progress: the enter frames of s on the threads' stacks
PollsInProgress(s) ==
    {p \in Threads \X (1..(MaxDepth + 1)) :
        /\ p[2] <= Len(stack[p[1]])
        /\ stack[p[1]][p[2]].kind = "enter"
        /\ stack[p[1]][p[2]].spawn = s}

Executed(s) == s \in 1..Len(spawns) /\ inner[s] # NoInner

\* C1: at-most-one poll. In every reachable state of the executor world, under
\* every interleaving of Task::unpark calls and Run::run invocations, at most
\* one poll of an executed Spawn's future is in progress.
C1_AtMostOnePoll ==
    \A s \in SpawnIdx : Executed(s) => Cardinality(PollsInProgress(s)) <= 1

\* C1 witness: the second poll of the task is in progress on one thread and a
\* notify has arrived during it (Repoll) after an earlier notify had handed the
\* Run to the executor
C1_Witness ==
    \E s \in SpawnIdx :
        /\ Executed(s)
        /\ Cardinality(PollsInProgress(s)) = 1
        /\ spawns[s].polls = 2
        /\ inner[s].status = REPOLL
        /\ \E k \in 1..Len(log) : log[k].saw = WAITING /\ log[k].ran

\* C2 as stated: between a notify that does not follow complete() and the
\* future's completion a poll begins, so no completed task has a notify after
\* which no poll began
C2_PollBetweenNotifyAndCompletion ==
    \A s \in SpawnIdx : Executed(s) /\ inner[s].status = COMPLETE => ~pend[s]

\* C2 (amended): no lost wakeups. After every notify on a handle of a task that
\* finds the mutex Waiting, Polling or Repoll, eventually a poll of the task's
\* future begins or the task completes (the poll that was executing, or about
\* to be started, when the notify arrived returns the final result).
C2_NoLostWakeup ==
    \A s \in SpawnIdx :
        (Executed(s) /\ pend[s]) ~> (~pend[s] \/ inner[s].status = COMPLETE)

\* C2 witness: a notify arrived in the window after an earlier notify handed
\* the Run to the executor and before Run::run called start_poll
C2_Witness ==
    \E s \in SpawnIdx :
        /\ Executed(s)
        /\ pend[s]
        /\ inner[s].status = REPOLL
        /\ PollsInProgress(s) = {}
        /\ \E k \in 1..Len(log) : log[k].saw = WAITING /\ log[k].ran
        /\ \E k \in 1..Len(log) : log[k].saw = POLLING

\* the number of Task::unpark calls on handles of the task of Spawn s that have
\* invoked its wakeup capability
Notified(s) ==
    Cardinality({k \in 1..Len(log) : log[k].task.unpark = InnerCap(s)})

\* nothing is running and nothing is queued: without a further unpark no poll
\* will begin
Quiescent == queue = <<>> /\ \A t \in Threads : Idle(t)

MinOf(a, b) == IF a <= b THEN a ELSE b

\* C3 as stated: after N unparks a future that needs K <= N + 1 polls is polled
\* K times without a further unpark, so it cannot come to rest with fewer polls
C3_PolledKTimes ==
    \A s \in SpawnIdx :
        (Executed(s) /\ Quiescent /\ spawns[s].need <= Notified(s) + 1)
            => spawns[s].polls >= spawns[s].need

\* C3 (amended): for any schedule of N unpark calls against an executor-driven
\* future that is NotReady until its K-th poll, with K <= min(N, 1) + 1, the
\* future is eventually polled at least K times without a further unpark
\* (unparks that arrive during one poll are coalesced into one repoll).
C3_PolledOnceMore ==
    \A s \in SpawnIdx :
        (Executed(s) /\ spawns[s].need <= MinOf(Notified(s), 1) + 1)
            ~> (Executed(s) /\ spawns[s].polls >= spawns[s].need)

\* C3 witness: a future that needs two polls has been polled twice after an
\* unpark on its handle
C3_Witness ==
    \E s \in SpawnIdx :
        /\ Executed(s)
        /\ spawns[s].need = 2
        /\ Notified(s) >= 1
        /\ spawns[s].polls = 2

\* the Run::run invocations on the Run of Spawn s that are executing
RunsInProgress(s) ==
    {p \in Threads \X (1..(MaxDepth + 1)) :
        /\ p[2] <= Len(stack[p[1]])
        /\ stack[p[1]][p[2]].kind = "run"
        /\ stack[p[1]][p[2]].spawn = s}

QueuedRuns(q, s) == {k \in 1..Len(q) : q[k].spawn = s}

\* the future of Spawn s returned its final value or error and Run::run returned
Finished(s) ==
    /\ spawns[s].polls >= spawns[s].need
    /\ PollsInProgress(s) = {}
    /\ RunsInProgress(s) = {}

C4_State ==
    \A s \in SpawnIdx : Executed(s) =>
        /\ Finished(s) => inner[s].status = COMPLETE
        /\ inner[s].status = COMPLETE =>
            /\ Finished(s)
            /\ inner[s].slot = NoRun
            /\ QueuedRuns(queue, s) = {}
        /\ \A k \in 1..Len(log) :
            (log[k].task.unpark = InnerCap(s) /\ log[k].saw = COMPLETE) => ~log[k].ran

C4_Step ==
    \A s \in SpawnIdx : (Executed(s) /\ inner[s].status = COMPLETE) =>
        /\ inner'[s] = inner[s]
        /\ spawns'[s].polls = spawns[s].polls
        /\ QueuedRuns(queue', s) = {}

\* C4: completion is terminal. Once the final poll (Ok or Err alike) returned
\* and Run::run returned, the mutex is Complete; from then on it stays
\* Complete, the future is not polled again, and an unpark on a handle of the
\* task calls no Executor::execute.
C4_CompletionTerminal == [](C4_State) /\ [][C4_Step]_vars

\* C4 witness: a future that returned Err is Complete and an unpark found the
\* mutex Complete afterwards
C4_Witness ==
    \E s \in SpawnIdx :
        /\ Executed(s)
        /\ spawns[s].out = PollErr
        /\ inner[s].status = COMPLETE
        /\ \E k \in 1..Len(log) :
            log[k].task.unpark = InnerCap(s) /\ log[k].saw = COMPLETE

\* the Task::unpark calls in progress, as (thread, stack index) pairs
UnparksInProgress ==
    {p \in Threads \X (1..(MaxDepth + 1)) :
        p[2] <= Len(stack[p[1]]) /\ stack[p[1]][p[2]].kind = "unpark"}

\* how many times the calls of Task::unpark made so far must have inserted the
\* event e: once per occurrence in the events of each call whose capability
\* was invoked, and once per occurrence the iterator of a call in progress passed
Owed(e) ==
    Cardinality({p \in (1..Len(log)) \X (1..MaxDepth) :
                    /\ p[2] <= Len(log[p[1]].task.events)
                    /\ log[p[1]].task.events[p[2]] = e})
    + Cardinality({q \in UnparksInProgress \X (1..MaxDepth) :
                    LET f == stack[q[1][1]][q[1][2]] IN
                    /\ q[2] <= f.i
                    /\ q[2] <= Len(f.task.events)
                    /\ f.task.events[q[2]] = e})

\* C5: within one Task::unpark call every (set, id) pair of the handle's events
\* is inserted exactly once, in list order, all before the wakeup capability is
\* invoked, and the capability is invoked exactly once per call; calls on
\* clones insert again (the sets count every call).
C5_EventsThenCapability ==
    /\ \A p \in UnparksInProgress :
        LET f == stack[p[1]][p[2]] IN
        /\ Len(f.fired) <= Len(f.task.events)
        /\ f.fired = SubSeq(f.task.events, 1, Len(f.fired))
    /\ \A k \in 1..Len(log) : log[k].fired = log[k].task.events
    /\ Len(log) + Cardinality(UnparksInProgress) = unparks
    /\ \A e \in UnparkEvents : evset[e.set][e.item] = Owed(e)

\* C5 witness: a handle carrying two events and a clone of it were both
\* unparked, and each of the two ids has been inserted twice
C5_Witness ==
    \E j, k \in 1..Len(log) :
        /\ j < k
        /\ handles[log[k].h].of = log[j].h \/ handles[log[j].h].of = log[k].h
        /\ Len(log[j].task.events) = 2
        /\ log[j].task.events[1] # log[j].task.events[2]
        /\ \A n \in 1..2 :
            evset[log[j].task.events[n].set][log[j].task.events[n].item] = 2

\* C6: events fire whatever the wakeup capability does. Every Task::unpark whose
\* notify found the mutex Polling, Repoll or Complete handed no Run to the
\* executor and still had inserted every event of its handle into its set.
C6_EventsFireWithoutReschedule ==
    \A k \in 1..Len(log) :
        log[k].saw \in {POLLING, REPOLL, COMPLETE} =>
            /\ ~log[k].ran
            /\ Len(log[k].fired) = Len(log[k].task.events)
            /\ \A j \in 1..Len(log[k].task.events) :
                /\ log[k].fired[j] = log[k].task.events[j]
                /\ evset[log[k].task.events[j].set][log[k].task.events[j].item] >= 1

\* C6 witness: an unpark on a handle with an event found the mutex already in
\* Repoll
C6_Witness ==
    \E k \in 1..Len(log) :
        /\ log[k].saw = REPOLL
        /\ log[k].task.events # <<>>
        /\ ~log[k].ran

\* C7: nested with_unpark_event frames accumulate events in nesting order. A
\* handle parked inside frames opened with e1 (outermost) .. en (innermost)
\* has the events list <<e1, .., en>>, and its unpark inserts them in that order.
C7_NestingOrder ==
    /\ \A h \in 1..Len(handles) : handles[h].task.events = handles[h].ctx.events
    /\ \A k \in 1..Len(log) : log[k].fired = handles[log[k].h].ctx.events

\* C7 witness (S5): a handle parked inside with_unpark_event((A, 1)) around
\* with_unpark_event((A, 2)) was unparked and inserted 1, then 2
C7_Witness ==
    \E k \in 1..Len(log) :
        /\ handles[log[k].h].ctx.events =
                <<[set |-> "A", item |-> 1], [set |-> "A", item |-> 2]>>
        /\ log[k].fired = <<[set |-> "A", item |-> 1], [set |-> "A", item |-> 2]>>

Frames == {p \in Threads \X (1..(MaxDepth + 1)) : p[2] <= Len(stack[p[1]])}

InSeq(e, seq) == \E j \in 1..Len(seq) : seq[j] = e

C8_State ==
    /\ \A p \in Frames :
        LET st == stack[p[1]]
            f == st[p[2]]
        IN
        /\ f.kind = "enter" =>
            /\ f.task.events = <<>>
            /\ f.task.id = spawns[f.spawn].id
        /\ f.kind = "wue" =>
            /\ p[2] > 1
            /\ IsSet(st[p[2] - 1])
            /\ f.task.id = st[p[2] - 1].task.id
            /\ f.task.unpark = st[p[2] - 1].task.unpark
            /\ f.task.events = Append(st[p[2] - 1].task.events, f.ev)
    /\ \A h \in 1..Len(handles) :
        /\ handles[h].task.id = spawns[handles[h].ctx.spawn].id
        /\ \A e \in UnparkEvents :
            InSeq(e, handles[h].task.events) => InSeq(e, handles[h].ctx.events)

C8_Step ==
    /\ \A t \in Threads :
        \A k \in 1..MinOf(Len(stack[t]), Len(stack'[t])) :
            stack'[t][k].task = stack[t][k].task
    /\ \A h \in 1..Len(handles) : h <= Len(handles') /\ handles'[h] = handles[h]

\* C8: with_unpark_event is scoped and leaves the outer Task unchanged. The
\* nested Task has the id and capability of the outer one and its events plus
\* the new one; no step changes a Task installed by an open frame or a handle
\* already parked; a Task built by enter has no events; a handle carries an
\* event only if the frame that added it was open, inside the same poll, when
\* the handle was parked.
C8_ScopedEvent == [](C8_State) /\ [][C8_Step]_vars

\* C8 witness: inside the body of a with_unpark_event a handle was parked (it
\* carries the event), then a different Spawn was polled from within the body
\* and a handle parked in that poll carries no event
C8_Witness ==
    \E t \in Threads, g, h \in 1..Len(handles) :
        /\ Len(stack[t]) = 3
        /\ stack[t][1].kind = "enter"
        /\ stack[t][2].kind = "wue"
        /\ stack[t][3].kind = "enter"
        /\ stack[t][3].spawn # stack[t][1].spawn
        /\ handles[g].ctx.spawn = stack[t][1].spawn
        /\ handles[g].task.events = <<stack[t][2].ev>>
        /\ handles[h].ctx.spawn = stack[t][3].spawn
        /\ handles[h].task.events = <<>>

\* a set frame is left: by a return or by unwinding
LeavesSet(t) ==
    /\ ~Idle(t)
    /\ IsSet(Top(t))
    /\ Len(stack'[t]) = Len(stack[t]) - 1

C9_Step ==
    \A t \in Threads :
        LeavesSet(t) =>
            /\ stack'[t] = PopFrame(stack[t])
            /\ cur'[t] = Top(t).prior

\* C9: ambient-context restoration. Whenever Spawn::enter or with_unpark_event
\* is left, by return or by a panic unwinding through it, the thread's
\* (current_task, current_local_map) pair is the pair that was installed when
\* it was called; frames are left innermost first, and a thread that has left
\* all of them has the null pair.
C9_Restoration ==
    /\ [][C9_Step]_vars
    /\ [](\A t \in Threads : Idle(t) => cur[t] = NullPair)

\* C9 witness: a panic has unwound the innermost of three nested frames and
\* the pair is again the one the second frame installed
C9_Witness ==
    \E t \in Threads :
        /\ unwinding[t] = "unwound"
        /\ Len(stack[t]) = 2
        /\ stack[t][1].kind = "enter"
        /\ stack[t][2].kind = "wue"
        /\ cur[t] = <<2, stack[t][1].spawn>>

C10_State ==
    \A t \in Threads :
        LET st == stack[t]
            k == InnermostEnter(st)
        IN
        /\ cur[t][1] # 0 <=> k # 0
        /\ k = 0 => cur[t] = NullPair
        /\ k # 0 =>
            /\ cur[t][1] \in k..Len(st)
            /\ IsSet(st[cur[t][1]])
            /\ cur[t][1] > k => st[cur[t][1]].kind = "wue"
            /\ st[cur[t][1]].task.id = spawns[st[k].spawn].id
            /\ st[cur[t][1]].task.unpark = st[k].task.unpark
            /\ cur[t][2] = st[k].spawn

C10_Step == \A t \in Threads : stack'[t] = stack[t] => cur'[t] = cur[t]

\* C10: on every thread the current-task pointer is non-null exactly while a
\* poll (a Spawn::enter body) is in progress on that thread, and then it
\* designates a Task with the id and capability of the innermost Spawn being
\* polled there (and that Spawn's local map); a thread that polls nothing has
\* the null pair, and no step of another thread changes a thread's pair.
C10_AmbientTask == [](C10_State) /\ [][C10_Step]_vars

\* C10 witness: one thread is inside a poll nested in a poll of another Spawn
\* while another thread, only calling Task::unpark, has the null pair
C10_Witness ==
    \E t, u \in Threads :
        /\ t # u
        /\ Len(stack[t]) = 2
        /\ stack[t][1].kind = "enter"
        /\ stack[t][2].kind = "enter"
        /\ cur[t] = <<2, stack[t][2].spawn>>
        /\ Len(stack[u]) = 1
        /\ stack[u][1].kind = "unpark"
        /\ cur[u] = NullPair

\* a call of park or with_unpark_event by thread t
ParkOrWue(t) == park(t) \/ \E e \in UnparkEvents : with_unpark_event(t, e)

C11_Step ==
    \A t \in Threads :
        (cur[t][1] = 0 /\ ParkOrWue(t)) =>
            /\ unwinding'[t] = "panic"
            /\ diag'[t] = NoTaskMsg
            /\ handles' = handles
            /\ stack' = stack
            /\ cur' = cur
            /\ spawns' = spawns
            /\ inner' = inner
            /\ queue' = queue

\* C11: park() and with_unpark_event called on a thread whose cell holds no
\* Task (outside every enter) panic with "no Task is currently running": no
\* handle is returned, the body of with_unpark_event is not started (no frame
\* is pushed, the cell stays null), and no Spawn, mutex or queue changes; the
\* diagnostic is only ever raised on a thread with the null pair.
C11_NoTaskFailsLoudly ==
    /\ [][C11_Step]_vars
    /\ [](\A t \in Threads : diag[t] = NoTaskMsg =>
                /\ unwinding[t] = "panic"
                /\ Idle(t)
                /\ cur[t] = NullPair)

\* C11 witness: a thread outside every poll has failed with the diagnostic
\* while another thread is inside a poll and holds the one handle parked there
C11_Witness ==
    \E t, u \in Threads :
        /\ t # u
        /\ diag[t] = NoTaskMsg
        /\ unwinding[t] = "panic"
        /\ cur[t] = NullPair
        /\ InBody(u)
        /\ Len(handles) = 1
        /\ handles[1].ctx.thread = u

\* the spawn calls, in the order of their fetch_add, that returned a Spawn
Returned == {k \in 1..Len(issued) : issued[k].ok}

\* C12 as stated: for any sequence of spawn calls, failing ones included, the
\* ids carried by the Spawns that were returned are pairwise distinct.
C12_UniqueIds ==
    \A j, k \in Returned : j # k => issued[j].id # issued[k].id

\* C13 as stated: every id of a returned Spawn is below half of the maximum of
\* the integer type, every call that fetched an id at or past half of the range
\* aborted instead of returning a Spawn, and the ids of successive successful
\* allocations are strictly increasing.
C13_ExhaustionFailsLoudly ==
    /\ \A k \in Returned : issued[k].id < UsizeMax \div 2
    /\ \A k \in 1..Len(issued) : issued[k].id >= UsizeMax \div 2 => ~issued[k].ok
    /\ \A j, k \in Returned : j < k => issued[j].id < issued[k].id

\* the wait_future calls in progress, as (thread, stack index) pairs
WaitsInProgress ==
    {p \in Threads \X (1..(MaxDepth + 1)) :
        p[2] <= Len(stack[p[1]]) /\ stack[p[1]][p[2]].kind = "wait"}

\* a Task::unpark has invoked the capability of a handle parked in the current
\* (the last begun) poll of Spawn s
UnparkedSincePoll(s) ==
    \E k \in 1..Len(log) :
        /\ handles[log[k].h].ctx.spawn = s
        /\ handles[log[k].h].ctx.poll = spawns[s].polls

\* a wait_future called inside the current poll of Spawn s parked the thread
NestedParked(s) ==
    \E n \in 1..Len(spawns) :
        /\ spawns[n].within = <<s, spawns[s].polls>>
        /\ spawns[n].parks > 0

C16_WaitFutureResult ==
    /\ \A s \in 1..Len(spawns) :
        /\ spawns[s].polls <= spawns[s].need
        /\ spawns[s].ret # "none" =>
            /\ spawns[s].ret = spawns[s].out
            /\ spawns[s].polls = spawns[s].need
            /\ spawns[s].parks = spawns[s].need - 1
    /\ \A p \in WaitsInProgress :
        LET f == stack[p[1]][p[2]]
            sp == spawns[f.spawn]
        IN
        /\ sp.ret = "none"
        /\ f.res \in {"polling", NotReady} => f.parks = sp.polls - 1
        /\ f.res = "parked" => f.parks = sp.polls
        /\ f.res \in {NotReady, "parked"} => sp.polls < sp.need
        /\ f.res \in {PollOk, PollErr} =>
            /\ f.res = sp.out
            /\ sp.polls = sp.need
            /\ f.parks = sp.need - 1

\* C16 witness: one wait_future returned Ok after a single poll without
\* parking (S1), another returned Err after three polls and two parks
C16_Witness ==
    \E r, s \in 1..Len(spawns) :
        /\ spawns[r].need = 1
        /\ spawns[r].ret = PollOk
        /\ spawns[r].parks = 0
        /\ spawns[s].need = 3
        /\ spawns[s].ret = PollErr
        /\ spawns[s].parks = 2
        /\ spawns[s].polls = 3

\* a handle was parked in the current (the last begun) poll of Spawn s
Arranged(s) ==
    \E h \in 1..Len(handles) :
        handles[h].ctx.spawn = s /\ handles[h].ctx.poll = spawns[s].polls

\* Task::unpark was called on the handle h
UnparkCalled(h) ==
    \/ \E k \in 1..Len(log) : log[k].h = h
    \/ \E p \in UnparksInProgress : stack[p[1]][p[2]].h = h

\* scenario S6: a Spawn whose future returns Ok at its need-th poll is handed
\* to an executor; every poll that returns NotReady parks one handle, and a
\* thread that is not running the task calls unpark on each handle once, at any
\* time after it was parked
NextS6 ==
    \/ \E need \in 1..MaxNeed : Len(spawns) < MaxTasks /\ spawn(need, PollOk)
    \/ \E s \in SpawnIdx : execute(s)
    \/ \E t \in Threads :
        \/ RunBegin(t)
        \/ RunStartPoll(t)
        \/ RunComplete(t)
        \/ RunWait(t)
        \/ /\ ~Idle(t)
           /\ Top(t).kind = "enter"
           /\ PollResult(spawns[Top(t).spawn]) = NotReady => Arranged(Top(t).spawn)
           /\ PollReturn(t)
        \/ InBody(t) /\ ~Arranged(ParkCtx(t).spawn) /\ park(t)
        \/ UnparkCap(t)
        \/ \E h \in 1..MaxHandles :
                Idle(t) /\ h <= Len(handles) /\ ~UnparkCalled(h) /\ TaskUnpark(t, h)

SpecS6 == Init /\ [][NextS6]_vars

\* the unparks on handles of the task of Spawn s whose notify found the mutex
\* Waiting
FoundWaiting(s) ==
    Cardinality({k \in 1..Len(log) :
                    log[k].task.unpark = InnerCap(s) /\ log[k].saw = WAITING})

\* C15 as stated: in scenario S6, whatever the timing of the background
\* unparks, when the future has returned Ok the executor has received exactly
\* n + 1 execute calls and the future was polled exactly n + 1 times (n + 1 is
\* need, the poll that returns Ok).
C15_ExactlyOnePerWakeup ==
    \A s \in SpawnIdx :
        (Executed(s) /\ inner[s].status = COMPLETE) =>
            /\ execs[s] = spawns[s].need
            /\ spawns[s].polls = spawns[s].need

\* C15 (amended): in scenario S6, when the future has returned Ok it was
\* polled exactly n + 1 times, and the executor has received between 1 and
\* n + 1 execute calls: the initial one and one for each unpark that found the
\* mutex Waiting (an unpark that arrives during the poll that arranged it makes
\* Run::run poll again without a call of execute).
C15_PollsExactExecutesAtMost ==
    \A s \in SpawnIdx :
        (Executed(s) /\ inner[s].status = COMPLETE) =>
            /\ spawns[s].polls = spawns[s].need
            /\ execs[s] >= 1
            /\ execs[s] <= spawns[s].need
            /\ execs[s] = 1 + FoundWaiting(s)

\* C15 witness: a future that returned NotReady twice has completed after
\* three polls and two execute calls: one unpark arrived during its poll, the
\* other found the mutex Waiting
C15_Witness ==
    \E s \in SpawnIdx :
        /\ Executed(s)
        /\ inner[s].status = COMPLETE
        /\ spawns[s].need = 3
        /\ spawns[s].polls = 3
        /\ execs[s] = 2
        /\ Len(log) = 2

\* how many of the places that can hold the Run of Spawn s do: the executor
\* (a Run it was handed and has not run yet), an executing Run::run, the mutex slot
Holders(s) ==
    Cardinality(QueuedRuns(queue, s)) + Cardinality(RunsInProgress(s))
        + (IF inner[s].slot # NoRun THEN 1 ELSE 0)

\* C17: exclusive ownership of the Run. For a task handed to an executor that
\* has not completed, exactly one of the executor, an executing Run::run and
\* the mutex slot holds its Run (and so its Spawn); the executor never holds
\* two Runs of it; the slot holds a payload, the task's own Run, only while
\* the mutex is Waiting; after completion none of the three holds it.
C17_ExclusiveOwnership ==
    \A s \in SpawnIdx : Executed(s) =>
        /\ inner[s].status # COMPLETE => Holders(s) = 1
        /\ inner[s].status = COMPLETE => Holders(s) = 0
        /\ Cardinality(QueuedRuns(queue, s)) <= 1
        /\ inner[s].slot # NoRun =>
            /\ inner[s].status = WAITING
            /\ inner[s].slot = Run(s)

\* C17 witness: the Run is back in the slot of a Waiting mutex after a poll
\* that was repeated because a notify arrived during it
C17_Witness ==
    \E s \in SpawnIdx :
        /\ Executed(s)
        /\ inner[s].status = WAITING
        /\ inner[s].slot = Run(s)
        /\ spawns[s].polls = 2
        /\ execs[s] = 1
        /\ \E k \in 1..Len(log) : log[k].saw = POLLING

\* the Run::run invocations that were entered and have not yet called start_poll
RunEntries ==
    {p \in Threads \X (1..(MaxDepth + 1)) :
        /\ p[2] <= Len(stack[p[1]])
        /\ stack[p[1]][p[2]].kind = "run"
        /\ stack[p[1]][p[2]].res = "entry"}

C19_State ==
    \A s \in SpawnIdx :
        (Executed(s) /\ PollsInProgress(s) # {}) =>
            /\ inner[s].status \in {POLLING, REPOLL}
            /\ inner[s].slot = NoRun

C19_Step ==
    \A s \in SpawnIdx : Executed(s) =>
        /\ (/\ PollsInProgress(s) # {}
            /\ Len(log') = Len(log) + 1
            /\ log'[Len(log')].task.unpark = InnerCap(s)) =>
                /\ log'[Len(log')].saw \in {POLLING, REPOLL}
                /\ ~log'[Len(log')].ran
                /\ inner'[s].status = REPOLL
                /\ queue' = queue
                /\ execs'[s] = execs[s]
                /\ \E t \in Threads : stack'[t] = PopFrame(stack[t])
        /\ \A t \in Threads :
            (/\ ~Idle(t)
             /\ Top(t).kind = "run"
             /\ Top(t).spawn = s
             /\ Top(t).res = NotReady
             /\ inner[s].status = REPOLL
             /\ stack'[t] # stack[t]) =>
                /\ Len(stack'[t]) = Len(stack[t]) + 1
                /\ stack'[t][Len(stack[t])].kind = "run"
                /\ stack'[t][Len(stack'[t])].kind = "enter"
                /\ stack'[t][Len(stack'[t])].spawn = s
                /\ spawns'[s].polls = spawns[s].polls + 1
                /\ inner'[s] = [status |-> POLLING, slot |-> NoRun]
                /\ queue' = queue

\* C19: notify during a poll. While a poll of the task is executing the mutex
\* is Polling or Repoll with an empty slot; a Task::unpark whose notify arrives
\* then, from any thread, returns having called no Executor::execute and
\* leaves the mutex in Repoll; and when Run::run calls wait with the mutex in
\* Repoll, the same invocation polls the future again (back in Polling)
\* instead of storing the Run and returning.
C19_NotifyDuringPoll == [](C19_State) /\ [][C19_Step]_vars

\* C19 witness: two notifies arrived during the first poll (Polling to Repoll,
\* Repoll unchanged), and the one Run::run invocation is polling a second time
C19_Witness ==
    \E s \in SpawnIdx :
        /\ Executed(s)
        /\ execs[s] = 1
        /\ spawns[s].polls = 2
        /\ PollsInProgress(s) # {}
        /\ inner[s].status = POLLING
        /\ \E k \in 1..Len(log) : log[k].saw = POLLING
        /\ \E k \in 1..Len(log) : log[k].saw = REPOLL

\* the Task::unpark calls made so far on handles of the task of Spawn s
UnparkCalls(s) ==
    Notified(s)
        + Cardinality({p \in UnparksInProgress :
                            stack[p[1]][p[2]].task.unpark = InnerCap(s)})

C20_State ==
    \A s \in SpawnIdx : Executed(s) =>
        /\ spawns[s].polls <= 1 + UnparkCalls(s)
        /\ execs[s] <= 1 + FoundWaiting(s)

\* C20: no spurious polls or enqueues in executor mode. The polls begun for a
\* task are at most 1 plus the Task::unpark calls made on its handles, the
\* Executor::execute calls for it at most 1 plus the unpark calls that found
\* the mutex Waiting; and (the unparks being finitely many) every Run::run
\* invocation returns.
C20_NoSpuriousPolls ==
    /\ [](C20_State)
    /\ \A s \in SpawnIdx : (RunsInProgress(s) # {}) ~> (RunsInProgress(s) = {})

\* C20 witness: after two unparks, one that found the mutex Waiting and one
\* that found it Polling, the future has been polled three times with two
\* execute calls, and every Run::run has returned
C20_Witness ==
    \E s \in SpawnIdx :
        /\ Executed(s)
        /\ UnparkCalls(s) = 2
        /\ FoundWaiting(s) = 1
        /\ spawns[s].polls = 3
        /\ execs[s] = 2
        /\ RunsInProgress(s) = {}

====
